---- MODULE Spec2Model ----
(***************************************************************************)
(* Model of src/execute_verify.py: the GitHub asset compliance             *)
(* verification pipeline (environment -> file existence -> structure ->    *)
(* content rules -> commit record -> exit status).                          *)
(*                                                                         *)
(* Texts are sequences of one-character strings.  Regular expressions are   *)
(* restricted to the form the configuration uses for msg_pattern (line     *)
(* 110): literals joined by "|".                                           *)
(***************************************************************************)
EXTENDS Integers, Sequences, FiniteSets, TLC

VARIABLES
    github_token,   \* os.environ value of MCP_GITHUB_TOKEN (Absent when unset)
    github_org,     \* os.environ value of GITHUB_EVAL_ORG (Absent when unset)
    config,         \* verification_config handed to run_verification_process
    pc,             \* position of run_verification_process / __main__
    visited,        \* pipeline steps entered so far, in order
    requests,       \* GET requests issued so far (endpoint kinds), in order
    replies,        \* what the remote API answered to each request, in order
    stderr,         \* diagnostic lines written to sys.stderr, in order
    fetched,        \* value returned by get_repository_file_content
    file_content,   \* file_content of run_verification_process
    missing,        \* the list verify_file_structure reported as missing
    evaluated,      \* indices of the content rules evaluated, in order
    reported,       \* the content rules reported as failed
    tested,         \* number of commit entries search_commits looked at
    found,          \* value returned by search_commits ("none" before/without return)
    exit_code       \* process exit status (-1 while running)

vars == <<github_token, github_org, config, pc, visited, requests, replies, stderr,
          fetched, file_content, missing, evaluated, reported, tested, found,
          exit_code>>

----------------------------------------------------------------------------
(* Bounds of the model *)

MaxDocLen == 4
MaxFetchLen == 2
MaxStructDocLen == 3
MaxStructs == 2
MaxRules == 2
MaxRuleDocLen == 2
MaxCommits == 2

----------------------------------------------------------------------------
(* Program constants *)

SuccessStatusCode == 200
NotFoundStatusCode == 404
ExitSuccess == 0
ExitFailure == 1

NL == "\n"
Absent == "<unset>"

----------------------------------------------------------------------------
(* Python values *)

None == [some |-> FALSE, val |-> <<>>]
Some(t) == [some |-> TRUE, val |-> t]

\* truth value of an Optional[str]: None and "" are falsy
TruthyText(o) == o.some /\ o.val # <<>>

\* truth value of an os.environ.get result
TruthyEnv(v) == v # Absent /\ v # ""

----------------------------------------------------------------------------
(* str operations *)

MatchesAt(sub, text, i) ==
    /\ i + Len(sub) - 1 <= Len(text)
    /\ \A k \in 1..Len(sub) : text[i + k - 1] = sub[k]

RECURSIVE Find(_, _, _)
\* str.find: first index >= i where sub occurs in text, 0 when there is none
Find(sub, text, i) ==
    IF i + Len(sub) - 1 > Len(text) THEN 0
    ELSE IF MatchesAt(sub, text, i) THEN i
    ELSE Find(sub, text, i + 1)

\* sub in text
Contains(sub, text) == Find(sub, text, 1) # 0

RECURSIVE Split(_, _)
\* text.split(sep) for a one-character separator
Split(text, sep) ==
    LET i == Find(<<sep>>, text, 1) IN
    IF i = 0 THEN <<text>>
    ELSE <<SubSeq(text, 1, i - 1)>> \o Split(SubSeq(text, i + 1, Len(text)), sep)

Lower(c) ==
    CASE c = "A" -> "a"
      [] c = "U" -> "u"
      [] c = "X" -> "x"
      [] OTHER -> c

Fold(text) == [i \in 1..Len(text) |-> Lower(text[i])]

----------------------------------------------------------------------------
(* re operations *)

IsDigit(c) == c \in {"0", "1", "2", "3", "4", "5", "6", "7", "8", "9"}

RECURSIVE FirstDigit(_, _)
\* index of the first digit at or after i, 0 when there is none
FirstDigit(line, i) ==
    IF i > Len(line) THEN 0
    ELSE IF IsDigit(line[i]) THEN i
    ELSE FirstDigit(line, i + 1)

RECURSIVE DigitsEnd(_, _)
\* last index of the run of digits that starts at i
DigitsEnd(line, i) ==
    IF i + 1 <= Len(line) /\ IsDigit(line[i + 1]) THEN DigitsEnd(line, i + 1)
    ELSE i

\* mutant of NumberSearch: the pattern without its decimal part, r"(\d+)"
NumberSearchIntOnly(line) ==
    LET s == FirstDigit(line, 1) IN
    IF s = 0 THEN None ELSE Some(SubSeq(line, s, DigitsEnd(line, s)))

\* re.search(r"(\d+(?:\.\d+)?)", line): group(1) of the leftmost match
NumberSearch(line) ==
    LET s == FirstDigit(line, 1) IN
    IF s = 0 THEN None
    ELSE LET e == DigitsEnd(line, s)
             f == IF e + 2 <= Len(line) /\ line[e + 1] = "." /\ IsDigit(line[e + 2])
                  THEN DigitsEnd(line, e + 2)
                  ELSE e
         IN Some(SubSeq(line, s, f))

\* re.search(pattern, text, flags) for a pattern of literals joined by "|"
ReSearch(pattern, text, ignorecase) ==
    LET alts == Split(pattern, "|") IN
    \E k \in 1..Len(alts) :
        IF ignorecase THEN Contains(Fold(alts[k]), Fold(text))
        ELSE Contains(alts[k], text)

----------------------------------------------------------------------------
(* base64 and utf-8 *)

\* a base64 payload is a sequence of sextets 0..63 and of padding symbols
PadSym == 64

RECURSIVE B64Encode(_)
\* what the contents endpoint does to the file's bytes
B64Encode(bytes) ==
    IF Len(bytes) = 0 THEN <<>>
    ELSE IF Len(bytes) = 1 THEN
        <<bytes[1] \div 4, (bytes[1] % 4) * 16, PadSym, PadSym>>
    ELSE IF Len(bytes) = 2 THEN
        LET n == bytes[1] * 256 + bytes[2] IN
        <<n \div 1024, (n \div 16) % 64, (n % 16) * 4, PadSym>>
    ELSE
        LET n == bytes[1] * 65536 + bytes[2] * 256 + bytes[3] IN
        <<n \div 262144, (n \div 4096) % 64, (n \div 64) % 64, n % 64>>
            \o B64Encode(SubSeq(bytes, 4, Len(bytes)))

RECURSIVE B64Bytes(_)
B64Bytes(data) ==
    IF Len(data) >= 4 THEN
        LET n == data[1] * 262144 + data[2] * 4096 + data[3] * 64 + data[4] IN
        <<n \div 65536, (n \div 256) % 256, n % 256>>
            \o B64Bytes(SubSeq(data, 5, Len(data)))
    ELSE IF Len(data) = 3 THEN
        LET n == data[1] * 4096 + data[2] * 64 + data[3] IN
        <<n \div 1024, (n \div 4) % 256>>
    ELSE IF Len(data) = 2 THEN
        <<(data[1] * 64 + data[2]) \div 16>>
    ELSE <<>>

\* base64.b64decode(payload): None stands for binascii.Error
B64Decode(payload) ==
    LET data == SelectSeq(payload, LAMBDA s : s # PadSym)
        pads == Len(payload) - Len(data)
        r == Len(data) % 4
    IN IF r = 1 \/ (r = 2 /\ pads < 2) \/ (r = 3 /\ pads < 1) THEN None
       ELSE Some(B64Bytes(data))

DocChars == {"A", "a", "1", "2", ".", NL}

CharCode(c) ==
    CASE c = "A" -> 65
      [] c = "a" -> 97
      [] c = "1" -> 49
      [] c = "2" -> 50
      [] c = "." -> 46
      [] c = NL -> 10

Utf8Encode(text) == [i \in 1..Len(text) |-> CharCode(text[i])]

\* bytes.decode("utf-8"): None stands for UnicodeDecodeError
Utf8Decode(bytes) ==
    IF \A i \in 1..Len(bytes) : \E c \in DocChars : CharCode(c) = bytes[i]
    THEN Some([i \in 1..Len(bytes) |->
                  CHOOSE c \in DocChars : CharCode(c) = bytes[i]])
    ELSE None

----------------------------------------------------------------------------
(* JSON bodies and HTTP responses *)

JsonNull == [kind |-> "null", has_content |-> FALSE, content |-> <<>>,
             others |-> FALSE, items |-> <<>>]
JsonDict(has_content, content, others) ==
    [kind |-> "dict", has_content |-> has_content, content |-> content,
     others |-> others, items |-> <<>>]
JsonList(items) == [kind |-> "list", has_content |-> FALSE, content |-> <<>>,
                    others |-> FALSE, items |-> items]

\* not body
Falsy(body) ==
    \/ body.kind = "null"
    \/ body.kind = "dict" /\ ~body.has_content /\ ~body.others
    \/ body.kind = "list" /\ body.items = <<>>

TransportFailure == [raises |-> TRUE, status |-> 0, json_ok |-> FALSE, body |-> JsonNull]
HttpResponse(status, json_ok, body) ==
    [raises |-> FALSE, status |-> status, json_ok |-> json_ok, body |-> body]

\* call_github_api: (success, data) and the line it writes to stderr
CallGithubApi(resp) ==
    IF resp.raises THEN
        [success |-> FALSE, data |-> JsonNull, log |-> <<"api:exception">>]
    ELSE IF resp.status = SuccessStatusCode THEN
        IF resp.json_ok THEN [success |-> TRUE, data |-> resp.body, log |-> <<>>]
        ELSE [success |-> FALSE, data |-> JsonNull, log |-> <<"api:exception">>]
    ELSE IF resp.status = NotFoundStatusCode THEN
        [success |-> FALSE, data |-> JsonNull, log |-> <<"api:notfound">>]
    ELSE [success |-> FALSE, data |-> JsonNull, log |-> <<"api:status">>]

\* get_repository_file_content: the Optional[str] and the lines written
GetRepositoryFileContent(resp) ==
    LET r == CallGithubApi(resp)
        failed == [content |-> None, log |-> r.log \o <<"decode">>]
    IN IF ~r.success \/ Falsy(r.data) THEN [content |-> None, log |-> r.log]
       ELSE IF r.data.kind # "dict" THEN failed
       ELSE LET payload == IF r.data.has_content THEN r.data.content ELSE <<>>
                b == B64Decode(payload)
            IN IF ~b.some THEN failed
               ELSE LET t == Utf8Decode(b.val) IN
                    IF ~t.some THEN failed
                    ELSE [content |-> Some(t.val), log |-> r.log]

RECURSIVE ScanCommits(_, _, _)
\* the loop of search_commits from entry i on
ScanCommits(items, pattern, i) ==
    IF i > Len(items) THEN [found |-> "false", tested |-> Len(items)]
    ELSE IF ~items[i].has_message THEN [found |-> "raised", tested |-> i]
    ELSE IF ReSearch(pattern, items[i].message, TRUE)
         THEN [found |-> "true", tested |-> i]
    ELSE ScanCommits(items, pattern, i + 1)

\* search_commits: "true", "false", or "raised" for an exception it lets through
SearchCommits(resp, pattern) ==
    LET r == CallGithubApi(resp) IN
    IF ~r.success THEN [found |-> "false", tested |-> 0, log |-> r.log]
    ELSE IF r.data.kind = "null" THEN [found |-> "raised", tested |-> 0, log |-> r.log]
    ELSE IF r.data.kind = "dict" THEN
        IF r.data.has_content \/ r.data.others
        THEN [found |-> "raised", tested |-> 1, log |-> r.log]
        ELSE [found |-> "false", tested |-> 0, log |-> r.log]
    ELSE LET s == ScanCommits(r.data.items, pattern, 1) IN
         [found |-> s.found, tested |-> s.tested, log |-> r.log]

----------------------------------------------------------------------------
(* verification functions *)

\* mutant of EnvOk: the organization is not checked
EnvOkTokenOnly(token, org) == TruthyEnv(token)

\* verify_environment_setup
EnvOk(token, org) == TruthyEnv(token) /\ TruthyEnv(org)

\* mutant of EnvLog: no return after the first missing setting is reported
EnvLogBoth(token, org) ==
    (IF ~TruthyEnv(token) THEN <<"env:token">> ELSE <<>>)
        \o (IF ~TruthyEnv(org) THEN <<"env:org">> ELSE <<>>)

EnvLog(token, org) ==
    IF ~TruthyEnv(token) THEN <<"env:token">>
    ELSE IF ~TruthyEnv(org) THEN <<"env:org">>
    ELSE <<>>

\* verify_file_existence: file_exists
FileExists(content) == TruthyText(content)

\* mutant of MissingStructures: the scan stops at the first absent entry
MissingFirstOnly(content, required_structures) ==
    LET all == SelectSeq(required_structures, LAMBDA struct : ~Contains(struct, content))
    IN IF all = <<>> THEN <<>> ELSE <<Head(all)>>

\* verify_file_structure: the missing list
MissingStructures(content, required_structures) ==
    SelectSeq(required_structures, LAMBDA struct : ~Contains(struct, content))

RECURSIVE StatMatch(_, _, _)
\* the stat_match loop over the lines
StatMatch(lines, target, expected) ==
    IF lines = <<>> THEN FALSE
    ELSE LET line == Head(lines)
             match == NumberSearch(line)
         IN IF Contains(target, line) /\ match.some /\ match.val = expected
            THEN TRUE
            ELSE StatMatch(Tail(lines), target, expected)

\* matched, for one rule of verify_content_accuracy
RuleMatched(rule, content) ==
    IF rule.type = "stat_match"
        THEN StatMatch(Split(content, NL), rule.target, rule.expected)
    ELSE IF rule.type = "regex_match"
        THEN ReSearch(rule.expected, content, FALSE)
    ELSE IF rule.type = "text_match"
        THEN Contains(rule.expected, content)
    ELSE FALSE

RECURSIVE EvalRulesNoBreak(_, _, _)
\* mutant of EvalRules: a failed rule is reported but the loop goes on
EvalRulesNoBreak(content, content_rules, i) ==
    IF i > Len(content_rules)
        THEN [valid |-> TRUE, evaluated |-> <<>>, reported |-> <<>>]
    ELSE LET rest == EvalRulesNoBreak(content, content_rules, i + 1)
             ok == RuleMatched(content_rules[i], content)
         IN [valid |-> ok /\ rest.valid, evaluated |-> <<i>> \o rest.evaluated,
             reported |-> (IF ok THEN <<>> ELSE <<content_rules[i]>>) \o rest.reported]

RECURSIVE EvalRules(_, _, _)
\* the rule loop of verify_content_accuracy from rule i on
EvalRules(content, content_rules, i) ==
    IF i > Len(content_rules)
        THEN [valid |-> TRUE, evaluated |-> <<>>, reported |-> <<>>]
    ELSE IF ~RuleMatched(content_rules[i], content)
        THEN [valid |-> FALSE, evaluated |-> <<i>>, reported |-> <<content_rules[i]>>]
    ELSE LET rest == EvalRules(content, content_rules, i + 1) IN
         [valid |-> rest.valid, evaluated |-> <<i>> \o rest.evaluated,
          reported |-> rest.reported]

\* verify_content_accuracy
ContentAccuracy(content, content_rules) ==
    IF content_rules = <<>>
        THEN [valid |-> TRUE, evaluated |-> <<>>, reported |-> <<>>]
    ELSE EvalRules(content, content_rules, 1)

----------------------------------------------------------------------------
(* run_verification_process: control flow *)

Steps == <<"EnvironmentCheck", "FileExistence", "StructureCheck",
           "ContentCheck", "CommitCheck">>

\* mutant of NextStep: the result of a step is not looked at
NextStepNoHalt(step, ok) ==
    CASE step = "EnvironmentCheck" -> "FileExistence"
      [] step = "FileExistence" -> "StructureCheck"
      [] step = "StructureCheck" -> "ContentCheck"
      [] step = "ContentCheck" -> "CommitCheck"
      [] step = "CommitCheck" -> "Success"

\* where run_verification_process goes after a step returned ok
NextStep(step, ok) ==
    IF ~ok THEN "Failed"
    ELSE CASE step = "EnvironmentCheck" -> "FileExistence"
           [] step = "FileExistence" -> "StructureCheck"
           [] step = "StructureCheck" -> "ContentCheck"
           [] step = "ContentCheck" -> "CommitCheck"
           [] step = "CommitCheck" -> "Success"

\* mutant of CommitConfigured: the commit record is always verified
CommitAlwaysConfigured(cfg) == TRUE

\* if commit_config:
CommitConfigured(cfg) == cfg.commit_verification.some

----------------------------------------------------------------------------
(* Inputs: settings, configurations, remote API behaviours *)

SeqsUpTo(S, n) == UNION {[1..k -> S] : k \in 0..n}

Docs(n) == SeqsUpTo(DocChars, n)

EnvValues == {Absent, "", "set"}

StatRule(target, expected) ==
    [type |-> "stat_match", target |-> target, expected |-> expected]
RegexRule(target, expected) ==
    [type |-> "regex_match", target |-> target, expected |-> expected]
TextRule(target, expected) ==
    [type |-> "text_match", target |-> target, expected |-> expected]

Config(structs, rules, commit) ==
    [required_structures |-> structs, content_rules |-> rules,
     commit_verification |-> commit]

MsgPatterns == {<<"u", "x">>, <<"U", "|", "a", "x">>}

PipelineConfigs ==
    {Config(st, ru, cv) :
        st \in {<<>>, << <<"a">> >>, << <<"A">>, <<"a">> >>},
        ru \in {<<>>,
                << StatRule(<<"a">>, <<"1">>) >>,
                << TextRule(<<"a">>, <<"a">>), RegexRule(<<"a">>, <<"A", "|", "1">>) >>},
        cv \in {None} \cup {Some(p) : p \in MsgPatterns}}

\* responses that are no usable 200: transport failure, undecodable JSON, 404, 500
ErrorResponses ==
    {TransportFailure,
     HttpResponse(SuccessStatusCode, FALSE, JsonNull),
     HttpResponse(NotFoundStatusCode, TRUE, JsonNull),
     HttpResponse(500, TRUE, JsonNull)}

Payloads(n) ==
    {B64Encode(Utf8Encode(d)) : d \in Docs(n)}
        \cup {<<16>>, <<16, 16, PadSym>>, B64Encode(<<255>>)}

ContentsBodies(n) ==
    {JsonNull, JsonDict(FALSE, <<>>, FALSE), JsonDict(FALSE, <<>>, TRUE),
     JsonList(<<>>), JsonList(<<"entry">>)}
        \cup {JsonDict(TRUE, p, TRUE) : p \in Payloads(n)}

ContentsResponses ==
    ErrorResponses
        \cup {HttpResponse(SuccessStatusCode, TRUE, b) : b \in ContentsBodies(MaxFetchLen)}

Messages == {<<>>, <<"u", "x">>, <<"U", "X">>, <<"a">>}

CommitEntry(has_message, message) ==
    [has_message |-> has_message, message |-> message]

CommitEntries ==
    {CommitEntry(TRUE, m) : m \in Messages} \cup {CommitEntry(FALSE, <<>>)}

CommitsBodies ==
    {JsonNull, JsonDict(FALSE, <<>>, FALSE), JsonDict(FALSE, <<>>, TRUE)}
        \cup {JsonList(l) : l \in SeqsUpTo(CommitEntries, MaxCommits)}

CommitsResponses ==
    ErrorResponses
        \cup {HttpResponse(SuccessStatusCode, TRUE, b) : b \in CommitsBodies}

----------------------------------------------------------------------------
(* Actions: one per step of run_verification_process, and the exit *)

VerifyEnvironmentSetup ==
    /\ pc = "EnvironmentCheck"
    /\ visited' = Append(visited, "EnvironmentCheck")
    /\ stderr' = stderr \o EnvLog(github_token, github_org)
    /\ pc' = NextStep("EnvironmentCheck", EnvOk(github_token, github_org))
    /\ UNCHANGED <<github_token, github_org, config, requests, replies, fetched,
                   file_content, missing, evaluated, reported, tested, found,
                   exit_code>>

VerifyFileExistence ==
    /\ pc = "FileExistence"
    /\ \E resp \in ContentsResponses :
        LET r == GetRepositoryFileContent(resp)
            file_exists == FileExists(r.content)
        IN /\ requests' = Append(requests, "contents")
           /\ replies' = Append(replies, resp)
           /\ fetched' = r.content
           /\ file_content' = IF file_exists THEN r.content ELSE None
           /\ stderr' = stderr \o r.log
                          \o (IF file_exists THEN <<>> ELSE <<"file:notfound">>)
           /\ pc' = NextStep("FileExistence", file_exists)
    /\ visited' = Append(visited, "FileExistence")
    /\ UNCHANGED <<github_token, github_org, config, missing, evaluated,
                   reported, tested, found, exit_code>>

VerifyFileStructure ==
    /\ pc = "StructureCheck"
    /\ LET m == MissingStructures(file_content.val, config.required_structures) IN
        /\ missing' = m
        /\ stderr' = stderr \o (IF m # <<>> THEN <<"structure:missing">> ELSE <<>>)
        /\ pc' = NextStep("StructureCheck", m = <<>>)
    /\ visited' = Append(visited, "StructureCheck")
    /\ UNCHANGED <<github_token, github_org, config, requests, replies, fetched,
                   file_content, evaluated, reported, tested, found, exit_code>>

VerifyContentAccuracy ==
    /\ pc = "ContentCheck"
    /\ LET c == ContentAccuracy(file_content.val, config.content_rules) IN
        /\ evaluated' = c.evaluated
        /\ reported' = c.reported
        /\ stderr' = stderr \o (IF c.valid THEN <<>> ELSE <<"content:mismatch">>)
        /\ pc' = NextStep("ContentCheck", c.valid)
    /\ visited' = Append(visited, "ContentCheck")
    /\ UNCHANGED <<github_token, github_org, config, requests, replies, fetched,
                   file_content, missing, tested, found, exit_code>>

VerifyCommitRecord ==
    /\ pc = "CommitCheck"
    /\ CommitConfigured(config)
    /\ \E resp \in CommitsResponses :
        LET s == SearchCommits(resp, config.commit_verification.val) IN
        /\ requests' = Append(requests, "commits")
        /\ replies' = Append(replies, resp)
        /\ tested' = s.tested
        /\ found' = s.found
        /\ stderr' = stderr \o s.log
                       \o (IF s.found = "false" THEN <<"commit:notfound">> ELSE <<>>)
        /\ pc' = IF s.found = "raised" THEN "Crashed"
                 ELSE NextStep("CommitCheck", s.found = "true")
    /\ visited' = Append(visited, "CommitCheck")
    /\ UNCHANGED <<github_token, github_org, config, fetched, file_content,
                   missing, evaluated, reported, exit_code>>

SkipCommitRecord ==
    /\ pc = "CommitCheck"
    /\ ~CommitConfigured(config)
    /\ pc' = NextStep("CommitCheck", TRUE)
    /\ visited' = Append(visited, "CommitCheck")
    /\ UNCHANGED <<github_token, github_org, config, requests, replies, stderr, fetched,
                   file_content, missing, evaluated, reported, tested, found,
                   exit_code>>

\* __main__: sys.exit(...); an uncaught exception ends the interpreter with a
\* traceback on stderr and status 1
MainExit ==
    /\ pc \in {"Success", "Failed", "Crashed"}
    /\ exit_code = -1
    /\ exit_code' = IF pc = "Success" THEN ExitSuccess
                    ELSE IF pc = "Failed" THEN ExitFailure
                    ELSE 1
    /\ stderr' = IF pc = "Crashed" THEN Append(stderr, "Traceback") ELSE stderr
    /\ UNCHANGED <<github_token, github_org, config, pc, visited, requests, replies,
                   fetched, file_content, missing, evaluated, reported, tested,
                   found>>

----------------------------------------------------------------------------
(* Specifications *)

\* the 200 response of the contents endpoint for a file holding doc
FileResponse(doc) ==
    HttpResponse(SuccessStatusCode, TRUE, JsonDict(TRUE, B64Encode(Utf8Encode(doc)), TRUE))

\* the state run_verification_process is in when it is about to run `step`
\* (StructureCheck or later), the file holding doc and every earlier step
\* having passed
AtStep(step, cfg, doc) ==
    /\ github_token = "set"
    /\ github_org = "set"
    /\ config = cfg
    /\ pc = step
    /\ visited = SubSeq(Steps, 1, (CHOOSE k \in 1..Len(Steps) : Steps[k] = step) - 1)
    /\ requests = <<"contents">>
    /\ replies = <<FileResponse(doc)>>
    /\ stderr = <<>>
    /\ fetched = Some(doc)
    /\ file_content = Some(doc)
    /\ missing = <<>>
    /\ evaluated = <<>>
    /\ reported = <<>>
    /\ tested = 0
    /\ found = "none"
    /\ exit_code = -1

\* the whole pipeline, from process start
Init ==
    /\ github_token \in EnvValues
    /\ github_org \in EnvValues
    /\ config \in PipelineConfigs
    /\ pc = "EnvironmentCheck"
    /\ visited = <<>>
    /\ requests = <<>>
    /\ replies = <<>>
    /\ stderr = <<>>
    /\ fetched = None
    /\ file_content = None
    /\ missing = <<>>
    /\ evaluated = <<>>
    /\ reported = <<>>
    /\ tested = 0
    /\ found = "none"
    /\ exit_code = -1

Next ==
    \/ VerifyEnvironmentSetup
    \/ VerifyFileExistence
    \/ VerifyFileStructure
    \/ VerifyContentAccuracy
    \/ VerifyCommitRecord
    \/ SkipCommitRecord
    \/ MainExit

Spec == Init /\ [][Next]_vars


\* verify_file_structure on every document and list of required structures
StructPool == {<<"A">>, <<"a">>, <<"a", "1">>}

InitStructure ==
    \E doc \in Docs(MaxStructDocLen) \ {<<>>} :
    \E st \in SeqsUpTo(StructPool, MaxStructs) :
        AtStep("StructureCheck", Config(st, <<>>, None), doc)

NextStructure == VerifyFileStructure

SpecStructure == InitStructure /\ [][NextStructure]_vars

\* verify_content_accuracy on every document: one stat_match rule on the long
\* documents, every sequence of rules on the short ones
StatRules ==
    {StatRule(<<"a">>, e) : e \in {<<"1">>, <<"1", "2">>, <<"1", ".", "2">>}}

RulePool ==
    {StatRule(<<"a">>, <<"1">>), TextRule(<<"a">>, <<"a", ".">>),
     RegexRule(<<"a">>, <<"A", "|", "2">>), TextRule(<<"A">>, <<"A">>)}

InitContent ==
    \/ \E doc \in Docs(MaxDocLen) \ {<<>>} :
       \E r \in StatRules :
           AtStep("ContentCheck", Config(<<>>, <<r>>, None), doc)
    \/ \E doc \in Docs(MaxRuleDocLen) \ {<<>>} :
       \E ru \in SeqsUpTo(RulePool, MaxRules) :
           AtStep("ContentCheck", Config(<<>>, ru, None), doc)

NextContent == VerifyContentAccuracy

SpecContent == InitContent /\ [][NextContent]_vars


----------------------------------------------------------------------------
(* Vocabulary of the properties, stated without the program's own scans *)

IsSubstring(sub, text) ==
    \E i \in 1..(Len(text) + 1) :
        /\ i + Len(sub) - 1 <= Len(text)
        /\ \A k \in 1..Len(sub) : text[i + k - 1] = sub[k]

\* the lines of a text: its maximal newline-free segments
LineSpans(text) ==
    {sp \in (1..(Len(text) + 1)) \X (0..Len(text)) :
        /\ sp[2] >= sp[1] - 1
        /\ sp[1] = 1 \/ text[sp[1] - 1] = NL
        /\ sp[2] = Len(text) \/ text[sp[2] + 1] = NL
        /\ \A k \in sp[1]..sp[2] : text[k] # NL}

Lines(text) == {SubSeq(text, sp[1], sp[2]) : sp \in LineSpans(text)}

\* digits, or digits "." digits
IsNumeral(t) ==
    /\ Len(t) >= 1
    /\ \/ \A k \in 1..Len(t) : IsDigit(t[k])
       \/ \E d \in 2..(Len(t) - 1) :
            /\ t[d] = "."
            /\ \A k \in (1..Len(t)) \ {d} : IsDigit(t[k])

\* line[s..f] is a numeral that no longer numeral starting at s extends
NumeralAt(line, s, f) ==
    /\ 1 <= s /\ s <= f /\ f <= Len(line)
    /\ IsNumeral(SubSeq(line, s, f))
    /\ \A g \in (f + 1)..Len(line) : ~IsNumeral(SubSeq(line, s, g))

\* tok is the first numeric token of the line
FirstNumeral(line, tok) ==
    \E s \in 1..Len(line) : \E f \in s..Len(line) :
        /\ NumeralAt(line, s, f)
        /\ SubSeq(line, s, f) = tok
        /\ \A k \in 1..(s - 1) : ~IsDigit(line[k])

\* tok is one of the numeric tokens of the line
SomeNumeral(line, tok) ==
    \E s \in 1..Len(line) : \E f \in s..Len(line) :
        /\ NumeralAt(line, s, f)
        /\ SubSeq(line, s, f) = tok
        /\ s = 1 \/ ~IsDigit(line[s - 1])
        /\ ~(s >= 3 /\ line[s - 1] = "." /\ IsDigit(line[s - 2]))

SettingMissing(v) == v = Absent \/ v = ""

\* the response is a 200 whose body could be parsed
Usable(resp) == ~resp.raises /\ resp.status = 200 /\ resp.json_ok

Entered(step) == \E k \in 1..Len(visited) : visited[k] = step

LastStep == visited[Len(visited)]

StepPassed(step) ==
    CASE step = "EnvironmentCheck" ->
            ~SettingMissing(github_token) /\ ~SettingMissing(github_org)
      [] step = "FileExistence" -> file_content.some
      [] step = "StructureCheck" -> missing = <<>>
      [] step = "ContentCheck" -> reported = <<>>
      [] step = "CommitCheck" -> ~config.commit_verification.some \/ found = "true"

StepFailed(step) ==
    IF step = "CommitCheck" THEN config.commit_verification.some /\ found = "false"
    ELSE ~StepPassed(step)

StepLine(step) ==
    CASE step = "FileExistence" -> "file:notfound"
      [] step = "StructureCheck" -> "structure:missing"
      [] step = "ContentCheck" -> "content:mismatch"
      [] step = "CommitCheck" -> "commit:notfound"

----------------------------------------------------------------------------
(* Properties *)

\* C1: when the access token or the organization setting is absent or empty,
\* the run fails at the environment step, exits 1, and no GET request is ever
\* issued.
C1_NoRequestWithoutSettings ==
    (SettingMissing(github_token) \/ SettingMissing(github_org)) =>
        /\ requests = <<>>
        /\ replies = <<>>
        /\ pc \in {"EnvironmentCheck", "Failed"}
        /\ pc = "Failed" => visited = <<"EnvironmentCheck">>
        /\ exit_code \in {-1, 1}

C1_Witness ==
    /\ github_token = "set"
    /\ github_org = ""
    /\ pc = "Failed"
    /\ exit_code = 1
    /\ requests = <<>>

\* C2: steps are entered in the fixed order, a step is entered only when all
\* earlier steps passed, a step that reports failure sends the run to Failed
\* with no later step entered, and a 404 on the contents request fails
\* FileExistence before StructureCheck.
C2_StepOrder ==
    /\ Len(visited) <= Len(Steps)
    /\ \A k \in 1..Len(visited) : visited[k] = Steps[k]
    /\ \A k \in 1..Len(visited) : \A j \in 1..(k - 1) : StepPassed(visited[j])
    /\ \A k \in 1..Len(visited) :
          StepFailed(visited[k]) => pc = "Failed" /\ k = Len(visited)
    /\ pc = "Failed" => visited # <<>> /\ StepFailed(LastStep)
    /\ pc = "Success" =>
          Len(visited) = Len(Steps) /\ \A k \in 1..Len(Steps) : StepPassed(Steps[k])
    /\ pc \notin {"Failed", "Success", "Crashed"} => pc = Steps[Len(visited) + 1]
    /\ (replies # <<>> /\ ~replies[1].raises /\ replies[1].status = 404) =>
          /\ pc = "Failed"
          /\ visited = <<"EnvironmentCheck", "FileExistence">>

C2_Witness ==
    /\ replies # <<>>
    /\ ~replies[1].raises
    /\ replies[1].status = 404
    /\ pc = "Failed"
    /\ ~Entered("StructureCheck")
    /\ exit_code = 1

\* C3: every run ends as pass (exit status 0) or fail (exit status 1) with
\* every error turned into a boolean failure; no exception escapes.
C3_NoUncaughtFault ==
    /\ pc # "Crashed"
    /\ exit_code # -1 =>
          \/ pc = "Success" /\ exit_code = 0
          \/ pc = "Failed" /\ exit_code = 1

\* C4 as stated: a stat_match rule is accepted exactly when some line holds the
\* target label and, anywhere on it, a numeric token equal to the expected text.
C4_AnyNumeral ==
    (Entered("ContentCheck") /\ Len(config.content_rules) = 1
        /\ config.content_rules[1].type = "stat_match") =>
        LET rule == config.content_rules[1] IN
        (pc = "CommitCheck") <=>
            \E line \in Lines(file_content.val) :
                /\ IsSubstring(rule.target, line)
                /\ SomeNumeral(line, rule.expected)

\* C4 amended: a stat_match rule is accepted exactly when some line holds the
\* target label and the first numeric token of that line equals the expected
\* text.
C4_FirstNumeral ==
    (Entered("ContentCheck") /\ Len(config.content_rules) = 1
        /\ config.content_rules[1].type = "stat_match") =>
        LET rule == config.content_rules[1] IN
        (pc = "CommitCheck") <=>
            \E line \in Lines(file_content.val) :
                /\ IsSubstring(rule.target, line)
                /\ FirstNumeral(line, rule.expected)

\* a rule rejected although the expected numeral stands on the label's line,
\* after another number
C4_Witness ==
    /\ Entered("ContentCheck")
    /\ Len(config.content_rules) = 1
    /\ config.content_rules[1].type = "stat_match"
    /\ pc = "Failed"
    /\ \E line \in Lines(file_content.val) :
          /\ IsSubstring(config.content_rules[1].target, line)
          /\ SomeNumeral(line, config.content_rules[1].expected)
          /\ ~FirstNumeral(line, config.content_rules[1].expected)

\* C5 as stated: a failing run writes exactly one diagnostic line and exits
\* non-zero; a passing run writes none and exits zero.
C5_ExactlyOneLine ==
    exit_code # -1 =>
        \/ pc = "Success" /\ exit_code = 0 /\ stderr = <<>>
        \/ pc # "Success" /\ exit_code # 0 /\ Len(stderr) = 1

\* the failing step's API call failed, or the fetched payload did not decode
FailedInClient ==
    /\ LastStep \in {"FileExistence", "CommitCheck"}
    /\ \/ ~Usable(replies[Len(replies)])
       \/ /\ LastStep = "FileExistence"
          /\ ~Falsy(replies[1].body)
          /\ ~fetched.some

\* C5 amended: a passing run writes no diagnostic line and exits 0.  A run in
\* which a step reports failure exits 1 and ends its diagnostics with the one
\* line of the failing step; that line is the only one, except when the step
\* failed because its API call failed (404, other status, transport or JSON
\* error) or the payload could not be decoded: then the API client's or the
\* decoder's line precedes it, two lines in all.  A run ended by an uncaught
\* exception writes only the interpreter's traceback and exits 1.
C5_Diagnostics ==
    exit_code # -1 =>
        \/ pc = "Success" /\ exit_code = 0 /\ stderr = <<>>
        \/ pc = "Crashed" /\ exit_code = 1 /\ stderr = <<"Traceback">>
        \/ /\ pc = "Failed"
           /\ exit_code = 1
           /\ IF LastStep = "EnvironmentCheck"
                THEN stderr \in {<<"env:token">>, <<"env:org">>}
              ELSE IF FailedInClient
                THEN /\ Len(stderr) = 2
                     /\ stderr[2] = StepLine(LastStep)
                     /\ IF Usable(replies[Len(replies)]) THEN stderr[1] = "decode"
                        ELSE stderr[1] \in {"api:notfound", "api:status", "api:exception"}
              ELSE stderr = <<StepLine(LastStep)>>

\* a run failed by a 404 on the contents request: two diagnostic lines
C5_Witness ==
    /\ exit_code = 1
    /\ pc = "Failed"
    /\ replies # <<>>
    /\ ~replies[1].raises
    /\ replies[1].status = 404
    /\ stderr = <<"api:notfound", "file:notfound">>

\* C6: verify_file_structure passes exactly when every required structure is
\* a (case-sensitive) substring of the text, and the missing list it reports
\* holds exactly the absent entries, all of them, in configuration order.
C6_StructureCheck ==
    Entered("StructureCheck") =>
        LET absent == SelectSeq(config.required_structures,
                                LAMBDA x : ~IsSubstring(x, file_content.val))
        IN /\ pc = "ContentCheck" <=> absent = <<>>
           /\ pc = "Failed" <=> absent # <<>>
           /\ missing = absent
           /\ stderr = IF absent = <<>> THEN <<>> ELSE <<"structure:missing">>

\* a failed check that reports two absent entries, one of them absent only
\* by letter case
C6_Witness ==
    /\ Entered("StructureCheck")
    /\ pc = "Failed"
    /\ missing = << <<"A">>, <<"a", "1">> >>
    /\ IsSubstring(<<"a">>, file_content.val)

\* C7: FileExistence fails exactly when the Content Fetcher returned None; a
\* returned text always passes and is the text handed on.
C7_FailsIffNone ==
    Entered("FileExistence") =>
        /\ (pc = "Failed" /\ LastStep = "FileExistence") <=> ~fetched.some
        /\ fetched.some => file_content = fetched

\* C8: ContentCheck passes at once on an empty rule sequence; otherwise the
\* rules are evaluated in configuration order up to and including the first
\* one that does not match, only that rule is reported, and the check passes
\* exactly when every rule matches.
C8_ShortCircuit ==
    Entered("ContentCheck") =>
        LET rules == config.content_rules
            fails == {i \in 1..Len(rules) : ~RuleMatched(rules[i], file_content.val)}
        IN IF fails = {}
             THEN /\ pc = "CommitCheck"
                  /\ evaluated = [i \in 1..Len(rules) |-> i]
                  /\ reported = <<>>
                  /\ stderr = <<>>
           ELSE LET f == CHOOSE i \in fails : \A j \in fails : i <= j IN
                  /\ pc = "Failed"
                  /\ evaluated = [i \in 1..f |-> i]
                  /\ reported = <<rules[f]>>
                  /\ stderr = <<"content:mismatch">>

\* rules [A, B] where A fails and B would pass: only A is evaluated and reported
C8_Witness ==
    /\ Entered("ContentCheck")
    /\ Len(config.content_rules) = 2
    /\ evaluated = <<1>>
    /\ reported = <<config.content_rules[1]>>
    /\ RuleMatched(config.content_rules[2], file_content.val)
    /\ pc = "Failed"

\* C9: search_commits returns true exactly when the commits request succeeds
\* and some commit message of the returned list matches the pattern without
\* regard to case, false otherwise, testing the messages in order up to the
\* first match.
C9_SearchCommits ==
    (Len(requests) = 2 /\ (Usable(replies[2]) => replies[2].body.kind = "list")) =>
        LET items == replies[2].body.items
            hits == {i \in 1..Len(items) :
                        /\ items[i].has_message
                        /\ ReSearch(config.commit_verification.val, items[i].message, TRUE)}
        IN IF Usable(replies[2]) /\ hits # {}
             THEN /\ found = "true"
                  /\ tested = CHOOSE i \in hits : \A j \in hits : i <= j
           ELSE found = "false"

\* C10: at most one contents request and at most one commits request, none
\* repeated; the commits request only when commit_verification is configured
\* and FileExistence, StructureCheck and ContentCheck have passed; without
\* commit_verification CommitCheck passes with no request and the run succeeds.
C10_Requests ==
    /\ requests \in {<<>>, <<"contents">>, <<"contents", "commits">>}
    /\ Len(replies) = Len(requests)
    /\ requests # <<>> => Entered("FileExistence")
    /\ Len(requests) = 2 =>
          /\ config.commit_verification.some
          /\ visited = Steps
          /\ StepPassed("FileExistence")
          /\ StepPassed("StructureCheck")
          /\ StepPassed("ContentCheck")
    /\ (~config.commit_verification.some /\ Entered("CommitCheck")) =>
          /\ requests = <<"contents">>
          /\ pc = "Success"
          /\ exit_code \in {-1, 0}

C10_Witness ==
    /\ ~config.commit_verification.some
    /\ Entered("CommitCheck")
    /\ requests = <<"contents">>
    /\ pc = "Success"
    /\ exit_code = 0

====
